---- MODULE Spec2Model ----
(***************************************************************************)
(* Expression rewriter of datafusion-expr (expr_rewriter/mod.rs):          *)
(* name preservation, the rewriter hooks, column normalization and         *)
(* unnormalization, and schema coercion of plan expressions.               *)
(*                                                                         *)
(* Strings are modelled as sequences of tokens, so that the flat name of   *)
(* the column test.a (<<"test", ".", "a">>) and the name of the            *)
(* unqualified column "test.a" are the same string, as in the code.        *)
(* Option<T> is modelled as a sequence of length 0 (None) or 1 (Some).     *)
(* Result<T> is modelled as a record with field ok.                        *)
(***************************************************************************)
EXTENDS Naturals, Sequences, FiniteSets

VARIABLES
    \* NamePreserver / SavedName
    np_pc,        \* "start" | "new" | "saved" | "restored"
    np_ctor,      \* "new_for_projection", or the plan kind given to new
    use_alias,    \* NamePreserver.use_alias
    expr_from,    \* the expression given to save
    saved_name,   \* the SavedName save returned
    rewrite_to,   \* the rewritten expression given to restore
    new_expr,     \* the expression restore returned
    \* TreeNodeRewriter run of RecordingRewriter
    rw_root,      \* the expression rewrite is called on
    rw_stack,     \* pending hook calls of the traversal, next first
    rw_calls,     \* the hook calls made so far: <<hook, path>>
    v,            \* RecordingRewriter.v
    \* normalize / unnormalize
    nz_op,        \* the function called last
    nz_expr,      \* its expression argument
    nz_schemas,   \* candidate-schema groups (or the plan's schema)
    nz_using,     \* using_columns
    nz_result,    \* what it returned
    nz_origin,    \* the expression normalize_col was given, for a round trip
    \* coerce_plan_expr_for_schema
    co_plan,      \* the plan argument
    co_schema,    \* the target schema
    co_result     \* what it returned

np_vars == <<np_pc, np_ctor, use_alias, expr_from, saved_name, rewrite_to, new_expr>>
rw_vars == <<rw_root, rw_stack, rw_calls, v>>
nz_vars == <<nz_op, nz_expr, nz_schemas, nz_using, nz_result, nz_origin>>
co_vars == <<co_plan, co_schema, co_result>>
vars == <<np_vars, rw_vars, nz_vars, co_vars>>

----------------------------------------------------------------------------
\* Bounds of the model.

\* Number of bare column names (a, b, ...).
NumNames == 2
\* Number of relations (t1, t2, ...).
NumRelations == 2

AllNames == <<"a", "b", "c", "d">>
AllRelations == <<"t1", "t2", "t3", "t4">>

BareNames == {<<AllNames[i]>> : i \in 1..NumNames}
Relations == {AllRelations[i] : i \in 1..NumRelations}

\* Option<TableReference>
None == <<>>
Some(x) == <<x>>
OptRelations == {None} \cup {Some(r) : r \in Relations}

\* Names that contain a dot, such as the unqualified column "t1.a".
DottedNames == {<<AllRelations[1], ".">> \o n : n \in BareNames}

DataTypes == {"Int32", "Int64", "Utf8", "Struct"}

----------------------------------------------------------------------------
\* Expressions (crate::Expr), the variants this file matches on or builds.

Column(relation, name) == [kind |-> "Column", relation |-> relation, name |-> name]
Literal(type, value) == [kind |-> "Literal", type |-> type, value |-> value]
AliasExpr(e, relation, name) ==
    [kind |-> "Alias", expr |-> e, relation |-> relation, name |-> name]
BinaryExpr(l, op, r) == [kind |-> "BinaryExpr", left |-> l, op |-> op, right |-> r]
Cast(e, type) == [kind |-> "Cast", expr |-> e, data_type |-> type]
Unnest(e) == [kind |-> "Unnest", expr |-> e]
OuterReferenceColumn(type, col) ==
    [kind |-> "OuterReferenceColumn", data_type |-> type, column |-> col]
Wildcard == [kind |-> "Wildcard"]

\* Result<T>
Ok(x) == [ok |-> TRUE, data |-> x]
Err(e) == [ok |-> FALSE, err |-> e]

\* Column::flat_name: relation.name, or name.
flat_name(c) ==
    IF c.relation = None THEN c.name ELSE <<c.relation[1], ".">> \o c.name

\* Expr::schema_name: the rendering a computed expression is named by.
RECURSIVE schema_name(_)
schema_name(e) ==
    CASE e.kind = "Column" -> flat_name(e)
      [] e.kind = "Alias" -> e.name
      [] e.kind = "Literal" -> <<e.value>>
      [] e.kind = "BinaryExpr" ->
            schema_name(e.left) \o <<e.op>> \o schema_name(e.right)
      [] e.kind = "Cast" ->
            <<"CAST", "(">> \o schema_name(e.expr) \o <<"AS", e.data_type, ")">>
      [] e.kind = "Unnest" -> <<"UNNEST", "(">> \o schema_name(e.expr) \o <<")">>
      [] e.kind = "OuterReferenceColumn" ->
            <<"outer_ref", "(">> \o flat_name(e.column) \o <<")">>
      [] OTHER -> <<"*">>

\* Expr::qualified_name: a column keeps its relation and name, an alias
\* carries the relation and name it was given, everything else is named by
\* its rendering and has no relation.
qualified_name(e) ==
    CASE e.kind = "Column" -> <<e.relation, e.name>>
      [] e.kind = "Alias" -> <<e.relation, e.name>>
      [] OTHER -> <<None, schema_name(e)>>

\* Expr::alias_qualified
alias_qualified(e, relation, name) == AliasExpr(e, relation, name)

\* Expr::alias
alias(e, name) == AliasExpr(e, None, name)

----------------------------------------------------------------------------
\* NamePreserver and SavedName.

PlanKinds ==
    {"Projection", "Aggregate", "Filter", "Join", "TableScan", "Limit", "Statement"}

SavedNameSaved(relation, name) ==
    [tag |-> "Saved", relation |-> relation, name |-> name]
SavedNameNone == [tag |-> "None"]

\* NamePreserver::new
NamePreserverNew(plan_kind) ==
    plan_kind \notin {"Filter", "Join", "TableScan", "Limit", "Statement"}

\* NamePreserver::new_for_projection
NamePreserverNewForProjection == TRUE

\* NamePreserver::save
save(self_use_alias, e) ==
    IF self_use_alias
    THEN LET qn == qualified_name(e) IN SavedNameSaved(qn[1], qn[2])
    ELSE SavedNameNone

\* A restore that aliases only when both the relation and the name changed.
restore_BothDiffer(self, e) ==
    IF self.tag = "Saved"
    THEN LET qn == qualified_name(e) IN
         IF qn[1] # self.relation /\ qn[2] # self.name
         THEN alias_qualified(e, self.relation, self.name)
         ELSE e
    ELSE e

\* A restore that always aliases a saved name.
restore_AlwaysAlias(self, e) ==
    IF self.tag = "Saved"
    THEN alias_qualified(e, self.relation, self.name)
    ELSE e

\* SavedName::restore
restore(self, e) ==
    IF self.tag = "Saved"
    THEN LET qn == qualified_name(e) IN
         IF qn[1] # self.relation \/ qn[2] # self.name
         THEN alias_qualified(e, self.relation, self.name)
         ELSE e
    ELSE e

\* The expressions the name preserver is run on.
NpColumns == {Column(r, n) : r \in OptRelations, n \in BareNames \cup DottedNames}
NpSimple ==
    {Column(r, n) : r \in OptRelations, n \in BareNames}
        \cup {Literal(t, "1") : t \in {"Int32", "Int64"}}
NpExprs ==
    NpColumns
        \cup {Literal(t, "1") : t \in {"Int32", "Int64"}}
        \cup {BinaryExpr(Column(None, n), "+", Literal(t, "1")) :
                n \in BareNames, t \in {"Int32", "Int64"}}
        \cup {Cast(Column(None, n), "Int32") : n \in BareNames}
        \cup {AliasExpr(e, r, n) : e \in NpSimple, r \in OptRelations, n \in BareNames}

NoExpr == [kind |-> "none"]

NpIdle ==
    /\ np_pc = "start"
    /\ np_ctor = "none"
    /\ use_alias = FALSE
    /\ expr_from = NoExpr
    /\ saved_name = SavedNameNone
    /\ rewrite_to = NoExpr
    /\ new_expr = NoExpr

\* let preserver = NamePreserver::new(plan)
New ==
    /\ np_pc = "start"
    /\ \E k \in PlanKinds :
        /\ np_ctor' = k
        /\ use_alias' = NamePreserverNew(k)
    /\ np_pc' = "new"
    /\ UNCHANGED <<expr_from, saved_name, rewrite_to, new_expr>>
    /\ UNCHANGED <<rw_vars, nz_vars, co_vars>>

\* let preserver = NamePreserver::new_for_projection()
NewForProjection ==
    /\ np_pc = "start"
    /\ np_ctor' = "new_for_projection"
    /\ use_alias' = NamePreserverNewForProjection
    /\ np_pc' = "new"
    /\ UNCHANGED <<expr_from, saved_name, rewrite_to, new_expr>>
    /\ UNCHANGED <<rw_vars, nz_vars, co_vars>>

\* let saved = preserver.save(&expr)
Save ==
    /\ np_pc = "new"
    /\ \E e \in NpExprs :
        /\ expr_from' = e
        /\ saved_name' = save(use_alias, e)
    /\ np_pc' = "saved"
    /\ UNCHANGED <<np_ctor, use_alias, rewrite_to, new_expr>>
    /\ UNCHANGED <<rw_vars, nz_vars, co_vars>>

\* saved.restore(rewritten): the rewrite in between may produce any
\* expression.
Restore ==
    /\ np_pc = "saved"
    /\ \E e2 \in NpExprs :
        /\ rewrite_to' = e2
        /\ new_expr' = restore(saved_name, e2)
    /\ np_pc' = "restored"
    /\ UNCHANGED <<np_ctor, use_alias, expr_from, saved_name>>
    /\ UNCHANGED <<rw_vars, nz_vars, co_vars>>

----------------------------------------------------------------------------
\* TreeNodeRewriter: Expr::rewrite with the RecordingRewriter of the tests.

ScalarFunction(name, args) == [kind |-> "ScalarFunction", name |-> name, args |-> args]

\* The child list of a node, in sequence order.
children(e) ==
    CASE e.kind = "Alias" -> <<e.expr>>
      [] e.kind = "Cast" -> <<e.expr>>
      [] e.kind = "Unnest" -> <<e.expr>>
      [] e.kind = "BinaryExpr" -> <<e.left, e.right>>
      [] e.kind = "ScalarFunction" -> e.args
      [] OTHER -> <<>>

\* The node with its children replaced by cs.
with_new_children(e, cs) ==
    CASE e.kind = "Alias" -> [e EXCEPT !.expr = cs[1]]
      [] e.kind = "Cast" -> [e EXCEPT !.expr = cs[1]]
      [] e.kind = "Unnest" -> [e EXCEPT !.expr = cs[1]]
      [] e.kind = "BinaryExpr" -> [e EXCEPT !.left = cs[1], !.right = cs[2]]
      [] e.kind = "ScalarFunction" -> [e EXCEPT !.args = cs]
      [] OTHER -> e

\* The node at a path of child indices.
RECURSIVE NodeAt(_, _)
NodeAt(e, path) ==
    IF path = <<>> THEN e ELSE NodeAt(children(e)[path[1]], Tail(path))

\* The paths of all nodes of a tree.
RECURSIVE Paths(_)
Paths(e) ==
    {<<>>} \cup UNION {{<<i>> \o p : p \in Paths(children(e)[i])} :
                        i \in 1..Len(children(e))}

RECURSIVE JoinArgs(_)
\* impl Display for Expr
RECURSIVE Display(_)
JoinArgs(es) ==
    IF es = <<>> THEN <<>>
    ELSE IF Len(es) = 1 THEN Display(es[1])
    ELSE Display(es[1]) \o <<",">> \o JoinArgs(Tail(es))
Display(e) ==
    CASE e.kind = "Column" -> flat_name(e)
      [] e.kind = "Literal" ->
            IF e.type = "Utf8"
            THEN <<e.type, "(", "\"", e.value, "\"", ")">>
            ELSE <<e.type, "(", e.value, ")">>
      [] e.kind = "Alias" -> Display(e.expr) \o <<"AS">> \o e.name
      [] e.kind = "BinaryExpr" -> Display(e.left) \o <<e.op>> \o Display(e.right)
      [] e.kind = "Cast" ->
            <<"CAST", "(">> \o Display(e.expr) \o <<"AS", e.data_type, ")">>
      [] e.kind = "Unnest" -> <<"UNNEST", "(">> \o Display(e.expr) \o <<")">>
      [] e.kind = "ScalarFunction" -> <<e.name, "(">> \o JoinArgs(e.args) \o <<")">>
      [] e.kind = "OuterReferenceColumn" ->
            <<"outer_ref", "(">> \o flat_name(e.column) \o <<")">>
      [] OTHER -> <<"*">>

\* An f_up that records the node as previsited.
f_up_Previsited(self_v, e) == Append(self_v, <<"Previsited">> \o Display(e))

\* RecordingRewriter::f_down: records the node; the node is returned
\* unchanged (Transformed::no), so the traversal goes on into its children.
f_down(self_v, e) == Append(self_v, <<"Previsited">> \o Display(e))

\* RecordingRewriter::f_up
f_up(self_v, e) == Append(self_v, <<"Mutated">> \o Display(e))

\* The hook calls a node's f_down leaves pending: each child's f_down, in
\* the order of the child list, then the node's own f_up.
Pending(e, path) ==
    [i \in 1..Len(children(e)) |-> <<"f_down", path \o <<i>>>>]
        \o <<<<"f_up", path>>>>

RwLeaves ==
    {Column(None, n) : n \in BareNames} \cup {Literal("Utf8", "CO")}
RwLevel1 ==
    {BinaryExpr(l, "=", r) : l \in RwLeaves, r \in RwLeaves}
        \cup {Cast(l, "Int32") : l \in RwLeaves}
        \cup {ScalarFunction("f", <<l, Literal("Utf8", "CO"), r>>) :
                l \in RwLeaves, r \in RwLeaves}
RwExprs ==
    RwLeaves \cup RwLevel1
        \cup {BinaryExpr(l, "AND", r) : l \in RwLevel1, r \in RwLeaves \cup RwLevel1}

RwIdle ==
    /\ rw_root = NoExpr
    /\ rw_stack = <<>>
    /\ rw_calls = <<>>
    /\ v = <<>>

\* expr.rewrite(&mut RecordingRewriter::default())
RewriterVisit ==
    /\ rw_root = NoExpr
    /\ \E e \in RwExprs : rw_root' = e
    /\ rw_stack' = <<<<"f_down", <<>>>>>>
    /\ rw_calls' = <<>>
    /\ v' = <<>>
    /\ UNCHANGED <<np_vars, nz_vars, co_vars>>

\* The traversal calls f_down on the next node.
FDown ==
    /\ rw_stack # <<>>
    /\ Head(rw_stack)[1] = "f_down"
    /\ LET path == Head(rw_stack)[2]
           node == NodeAt(rw_root, path)
       IN /\ v' = f_down(v, node)
          /\ rw_calls' = Append(rw_calls, <<"f_down", path>>)
          /\ rw_stack' = Pending(node, path) \o Tail(rw_stack)
    /\ UNCHANGED rw_root
    /\ UNCHANGED <<np_vars, nz_vars, co_vars>>

\* The traversal calls f_up on a node whose children are done.
FUp ==
    /\ rw_stack # <<>>
    /\ Head(rw_stack)[1] = "f_up"
    /\ LET path == Head(rw_stack)[2]
           node == NodeAt(rw_root, path)
       IN /\ v' = f_up(v, node)
          /\ rw_calls' = Append(rw_calls, <<"f_up", path>>)
          /\ rw_stack' = Tail(rw_stack)
    /\ UNCHANGED rw_root
    /\ UNCHANGED <<np_vars, nz_vars, co_vars>>

----------------------------------------------------------------------------
\* Column normalization and unnormalization.

\* A field of a DFSchema: qualifier, name, data type.
Field(relation, name, type) == [relation |-> relation, name |-> name, type |-> type]

\* Column::from((qualifier, field))
ColumnOfField(f) == Column(f.relation, f.name)

\* Largest number of candidate-schema groups.
MaxGroups == 2

\* Whether a field matches a column reference: by name, and by qualifier
\* when the reference has one.
FieldMatches(f, c) ==
    f.name = c.name /\ (c.relation = None \/ f.relation = c.relation)

\* The fields of all schemas of a group, in order.
RECURSIVE GroupFields(_)
GroupFields(group) ==
    IF group = <<>> THEN <<>> ELSE Head(group) \o GroupFields(Tail(group))

SchemaError(kind, c, fields) ==
    [error |-> kind, field |-> c, valid_fields |-> fields]

\* Column::normalize_with_schemas_and_ambiguity_check, from group g on.
RECURSIVE ResolveFrom(_, _, _, _)
ResolveFrom(c, schemas, using_columns, g) ==
    IF g > Len(schemas)
    THEN Err(SchemaError("UnknownColumn", c,
                         IF schemas = <<>> THEN <<>> ELSE GroupFields(schemas[1])))
    ELSE LET m == SelectSeq(GroupFields(schemas[g]), LAMBDA f : FieldMatches(f, c))
         IN IF Len(m) = 0 THEN ResolveFrom(c, schemas, using_columns, g + 1)
            ELSE IF Len(m) = 1 THEN Ok(ColumnOfField(m[1]))
            ELSE IF \E u \in using_columns :
                        \A i \in 1..Len(m) : ColumnOfField(m[i]) \in u
                 THEN Ok(ColumnOfField(m[1]))
                 ELSE Err(SchemaError("AmbiguousReference", c, m))

\* Column::normalize_with_schemas_and_ambiguity_check
normalize_with_schemas_and_ambiguity_check(c, schemas, using_columns) ==
    ResolveFrom(c, schemas, using_columns, 1)

\* LogicalPlanBuilder::normalize: against the plan's own schema.
LogicalPlanBuilder_normalize(plan, c) ==
    normalize_with_schemas_and_ambiguity_check(c, << <<plan.schema>> >>, {})

\* The closure normalize_col gives to transform.
normalize_col_closure(e, plan) ==
    IF e.kind = "Column"
    THEN LET col == LogicalPlanBuilder_normalize(plan, e)
         IN IF col.ok THEN Ok(col.data) ELSE col
    ELSE Ok(e)

\* A closure that resolves the column and returns the node as it was.
normalize_schemas_closure_NoReplace(e, schemas, using_columns) ==
    IF e.kind = "Column"
    THEN LET col == normalize_with_schemas_and_ambiguity_check(e, schemas, using_columns)
         IN IF col.ok THEN Ok(e) ELSE col
    ELSE Ok(e)

\* A closure that keeps the column as it is when it does not resolve.
normalize_schemas_closure_KeepOnError(e, schemas, using_columns) ==
    IF e.kind = "Column"
    THEN LET col == normalize_with_schemas_and_ambiguity_check(e, schemas, using_columns)
         IN IF col.ok THEN Ok(col.data) ELSE Ok(e)
    ELSE Ok(e)

\* The closure normalize_col_with_schemas_and_ambiguity_check gives to
\* transform: a column is replaced by its resolution, `?` returns the error.
normalize_schemas_closure(e, schemas, using_columns) ==
    IF e.kind = "Column"
    THEN LET col == normalize_with_schemas_and_ambiguity_check(e, schemas, using_columns)
         IN IF col.ok THEN Ok(col.data) ELSE col
    ELSE Ok(e)

\* A closure that leaves the column's qualifier in place.
unnormalize_closure_KeepQualifier(e) == Ok(e)

\* The closure unnormalize_col gives to transform.
unnormalize_closure(e) ==
    IF e.kind = "Column" THEN Ok(Column(None, e.name)) ELSE Ok(e)

\* The closures, as values: f.fn names the closure, the rest is what it
\* captured.
apply(f, e) ==
    CASE f.fn = "normalize_col" -> normalize_col_closure(e, f.plan)
      [] f.fn = "normalize_schemas" ->
            normalize_schemas_closure(e, f.schemas, f.using_columns)
      [] f.fn = "unnormalize" -> unnormalize_closure(e)

\* TreeNode::transform (transform_up): the children first, left to right,
\* then the node itself; the first error ends the traversal.
RECURSIVE transform(_, _)
RECURSIVE map_children(_, _)
map_children(cs, f) ==
    IF cs = <<>> THEN Ok(<<>>)
    ELSE LET h == transform(Head(cs), f)
         IN IF ~h.ok THEN h
            ELSE LET t == map_children(Tail(cs), f)
                 IN IF ~t.ok THEN t ELSE Ok(<<h.data>> \o t.data)
transform(e, f) ==
    LET cs == map_children(children(e), f)
    IN IF ~cs.ok THEN cs ELSE apply(f, with_new_children(e, cs.data))

\* normalize_col
normalize_col(e, plan) == transform(e, [fn |-> "normalize_col", plan |-> plan])

\* A normalize that returns the inner expression of an unnest unwrapped.
RECURSIVE normalize_col_with_schemas_NoRewrap(_, _, _)
normalize_col_with_schemas_NoRewrap(e, schemas, using_columns) ==
    IF e.kind = "Unnest"
    THEN normalize_col_with_schemas_NoRewrap(e.expr, schemas, using_columns)
    ELSE transform(e, [fn |-> "normalize_schemas", schemas |-> schemas,
                       using_columns |-> using_columns])

\* normalize_col_with_schemas_and_ambiguity_check
RECURSIVE normalize_col_with_schemas_and_ambiguity_check(_, _, _)
normalize_col_with_schemas_and_ambiguity_check(e, schemas, using_columns) ==
    IF e.kind = "Unnest"
    THEN LET inner == normalize_col_with_schemas_and_ambiguity_check(
                          e.expr, schemas, using_columns)
         IN IF inner.ok THEN Ok(Unnest(inner.data)) ELSE inner
    ELSE transform(e, [fn |-> "normalize_schemas", schemas |-> schemas,
                       using_columns |-> using_columns])

Panic == [kind |-> "panic"]

\* unnormalize_col: expect() on the result of the transform.
unnormalize_col(e) ==
    LET r == transform(e, [fn |-> "unnormalize"])
    IN IF r.ok THEN r.data ELSE Panic

\* unalias
RECURSIVE unalias(_)
unalias(e) == IF e.kind = "Alias" THEN unalias(e.expr) ELSE e

\* The schemas: one relation each, with one of the names or all of them.
NameLists == {<<n>> : n \in BareNames} \cup {[i \in 1..NumNames |-> <<AllNames[i]>>]}
SchemaOf(r, names) == [i \in 1..Len(names) |-> Field(Some(r), names[i], "Int8")]
Schemas == {SchemaOf(r, ns) : r \in Relations, ns \in NameLists}
SchemaRelation(s) == s[1].relation

\* A group of an inner scope: one schema, or two of different relations.
InnerGroups ==
    {<<s>> : s \in Schemas}
        \cup {g \in Schemas \X Schemas : SchemaRelation(g[1]) # SchemaRelation(g[2])}
\* A group of another scope: one relation with one field, of the first name.
OuterRelation == "o1"
OuterGroups == {<< SchemaOf(OuterRelation, << <<AllNames[1]>> >>) >>}

\* The candidate-schema groups of a call: at most MaxGroups groups, an
\* inner group at any one place among groups of other scopes.
GroupLists ==
    {<<>>} \cup
    UNION {{pre \o <<g>> \o post : g \in InnerGroups,
                pre \in [1..k -> OuterGroups],
                post \in UNION {[1..j -> OuterGroups] : j \in 0..(MaxGroups - 1 - k)}} :
           k \in 0..(MaxGroups - 1)}

\* using_columns: none, or one USING clause on the first name.
UsingSets ==
    {{}, {{Column(Some(r), <<AllNames[1]>>) : r \in Relations}}}

NzColumns ==
    {Column(None, n) : n \in BareNames}
        \cup {Column(Some(r), <<AllNames[1]>>) : r \in Relations}
NzBare == {Column(None, n) : n \in BareNames}
NzExprs ==
    NzColumns
        \cup {Literal("Int32", "1")}
        \cup {BinaryExpr(l, "+", r) : l \in NzBare, r \in NzBare}
        \cup {Unnest(c) : c \in NzColumns}
        \cup {OuterReferenceColumn("Int8", c) : c \in NzBare}
        \cup {AliasExpr(c, None, <<"x">>) : c \in NzBare}
        \cup {BinaryExpr(l, "+", OuterReferenceColumn("Int8", r)) :
                l \in NzBare, r \in NzBare}
        \cup {Unnest(BinaryExpr(Column(None, <<AllNames[1]>>), "+", c)) : c \in NzBare}

\* The plans normalize_col is given: a scan of one relation, or a join of
\* two.
NzPlans ==
    {[kind |-> "TableScan", schema |-> s] : s \in Schemas}
        \cup {[kind |-> "Join", schema |-> g[1] \o g[2]] :
                g \in {h \in InnerGroups : Len(h) = 2}}

\* normalize_col_with_schemas_and_ambiguity_check(expr, schemas, using_columns)
NormalizeColWithSchemas ==
    /\ nz_op = "none"
    /\ \E e \in NzExprs, gs \in GroupLists, us \in UsingSets :
        /\ nz_expr' = e
        /\ nz_schemas' = gs
        /\ nz_using' = us
        /\ nz_result' = normalize_col_with_schemas_and_ambiguity_check(e, gs, us)
    /\ nz_op' = "normalize_col_with_schemas_and_ambiguity_check"
    /\ UNCHANGED nz_origin
    /\ UNCHANGED <<np_vars, rw_vars, co_vars>>

\* normalize_col(expr, plan)
NormalizeCol ==
    /\ nz_op = "none"
    /\ \E e \in NzExprs, plan \in NzPlans :
        /\ nz_expr' = e
        /\ nz_origin' = e
        /\ nz_schemas' = << <<plan.schema>> >>
        /\ nz_result' = normalize_col(e, plan)
    /\ nz_op' = "normalize_col"
    /\ UNCHANGED nz_using
    /\ UNCHANGED <<np_vars, rw_vars, co_vars>>

\* unnormalize_col(expr), on any expression
UnnormalizeCol ==
    /\ nz_op = "none"
    /\ \E e \in NzExprs :
        /\ nz_expr' = e
        /\ nz_result' = unnormalize_col(e)
    /\ nz_op' = "unnormalize_col"
    /\ UNCHANGED <<nz_schemas, nz_using, nz_origin>>
    /\ UNCHANGED <<np_vars, rw_vars, co_vars>>

\* unnormalize_col(normalize_col(expr, plan)?)
UnnormalizeNormalized ==
    /\ nz_op = "normalize_col"
    /\ nz_result.ok
    /\ nz_expr' = nz_result.data
    /\ nz_result' = unnormalize_col(nz_result.data)
    /\ nz_op' = "unnormalize_col"
    /\ UNCHANGED <<nz_schemas, nz_using, nz_origin>>
    /\ UNCHANGED <<np_vars, rw_vars, co_vars>>

----------------------------------------------------------------------------
\* Schema coercion.

\* Largest number of fields of a schema.
MaxFields == 2

\* DFSchema::field_with_name / index_of_column, for get_type of a column.
FieldsOfColumn(c, schema) == SelectSeq(schema, LAMBDA f : FieldMatches(f, c))

\* ExprSchemable::get_type
RECURSIVE get_type(_, _)
get_type(e, schema) ==
    CASE e.kind = "Column" ->
            IF FieldsOfColumn(e, schema) = <<>>
            THEN Err(SchemaError("UnknownColumn", e, schema))
            ELSE Ok(FieldsOfColumn(e, schema)[1].type)
      [] e.kind = "Alias" -> get_type(e.expr, schema)
      [] e.kind = "Literal" -> Ok(e.type)
      [] e.kind = "Cast" -> Ok(e.data_type)
      [] OTHER -> Ok("Null")

\* arrow can_cast_types: a struct casts to and from nothing else.
can_cast_types(from, to) == from = to \/ (from # "Struct" /\ to # "Struct")

\* ExprSchemable::cast_to
cast_to(e, type, schema) ==
    LET this_type == get_type(e, schema)
    IN IF ~this_type.ok THEN this_type
       ELSE IF this_type.data = type THEN Ok(e)
       ELSE IF can_cast_types(this_type.data, type) THEN Ok(Cast(e, type))
       ELSE Err([error |-> "TypeCoercionFailure", from |-> this_type.data, to |-> type])

\* A panic of the thread: schema.field(idx) with idx out of range.
PanicResult == [ok |-> FALSE, panic |-> "index out of bounds"]

\* The closure of coerce_exprs_for_schema, for the expression at idx
\* (counted from 1 here).
coerce_expr(e, idx, src_schema, dst_schema) ==
    IF idx > Len(dst_schema) THEN PanicResult
    ELSE LET new_type == dst_schema[idx].type
             this_type == get_type(e, src_schema)
         IN IF ~this_type.ok THEN this_type
            ELSE IF new_type # this_type.data
            THEN CASE e.kind = "Alias" ->
                        LET c == cast_to(e.expr, new_type, src_schema)
                        IN IF c.ok THEN Ok(alias(c.data, e.name)) ELSE c
                   [] e.kind = "Wildcard" -> Ok(e)
                   [] OTHER -> cast_to(e, new_type, src_schema)
            ELSE Ok(e)

\* coerce_exprs_for_schema: the expressions in order, up to the first error.
RECURSIVE coerce_exprs_from(_, _, _, _)
coerce_exprs_from(exprs, src_schema, dst_schema, idx) ==
    IF idx > Len(exprs) THEN Ok(<<>>)
    ELSE LET one == coerce_expr(exprs[idx], idx, src_schema, dst_schema)
         IN IF ~one.ok THEN one
            ELSE LET rest == coerce_exprs_from(exprs, src_schema, dst_schema, idx + 1)
                 IN IF ~rest.ok THEN rest ELSE Ok(<<one.data>> \o rest.data)

coerce_exprs_for_schema(exprs, src_schema, dst_schema) ==
    coerce_exprs_from(exprs, src_schema, dst_schema, 1)

\* Projection::try_new
Projection_try_new(exprs, input) ==
    Ok([kind |-> "Projection", expr |-> exprs, input |-> input])

\* LogicalPlan::schema, of the plans that are not projections.
plan_schema(plan) == plan.schema

\* Expr::from((qualifier, field)) over the plan's schema.
schema_columns(schema) == [i \in 1..Len(schema) |-> ColumnOfField(schema[i])]

\* A coercion that adds the projection only when no entry is a column.
coerce_plan_expr_for_schema_AllNonCol(plan, schema) ==
    IF plan.kind = "Projection"
    THEN LET new_exprs == coerce_exprs_for_schema(plan.expr, plan_schema(plan.input), schema)
         IN IF ~new_exprs.ok THEN new_exprs
            ELSE Projection_try_new(new_exprs.data, plan.input)
    ELSE LET new_exprs == coerce_exprs_for_schema(
                              schema_columns(plan_schema(plan)), plan_schema(plan), schema)
         IN IF ~new_exprs.ok THEN new_exprs
            ELSE IF \A k \in 1..Len(new_exprs.data) : new_exprs.data[k].kind # "Column"
                 THEN Projection_try_new(new_exprs.data, plan)
                 ELSE Ok(plan)

\* coerce_plan_expr_for_schema
coerce_plan_expr_for_schema(plan, schema) ==
    IF plan.kind = "Projection"
    THEN LET new_exprs == coerce_exprs_for_schema(plan.expr, plan_schema(plan.input), schema)
         IN IF ~new_exprs.ok THEN new_exprs
            ELSE Projection_try_new(new_exprs.data, plan.input)
    ELSE LET new_exprs == coerce_exprs_for_schema(
                              schema_columns(plan_schema(plan)), plan_schema(plan), schema)
             add_project ==
                 \E k \in 1..Len(new_exprs.data) : new_exprs.data[k].kind # "Column"
         IN IF ~new_exprs.ok THEN new_exprs
            ELSE IF add_project THEN Projection_try_new(new_exprs.data, plan)
            ELSE Ok(plan)

\* Schemas of up to MaxFields fields of one relation, of any types.
CoTypeLists == UNION {[1..n -> DataTypes] : n \in 1..MaxFields}
CoSchema(types) ==
    [i \in 1..Len(types) |-> Field(Some(AllRelations[1]), <<AllNames[i]>>, types[i])]
CoSchemas == {CoSchema(ts) : ts \in CoTypeLists}

\* The expressions of a projection over a scan whose first field is a.
CoFirstColumn == Column(Some(AllRelations[1]), <<AllNames[1]>>)
CoProjExprs ==
    {CoFirstColumn,
     AliasExpr(CoFirstColumn, None, <<"x">>),
     AliasExpr(CoFirstColumn, Some(AllRelations[2]), <<"y">>),
     Literal("Int64", "1"),
     Wildcard}
CoProjLists ==
    {es \in UNION {[1..n -> CoProjExprs] : n \in 1..MaxFields} :
        \A i, j \in 1..Len(es) : es[i] = es[j] => i = j}

CoPlans ==
    {[kind |-> k, schema |-> sch] : k \in {"TableScan", "Filter"}, sch \in CoSchemas}
        \cup {[kind |-> "Projection", expr |-> es,
               input |-> [kind |-> "TableScan", schema |-> CoSchema(<<t>>)]] :
                es \in CoProjLists, t \in {"Int32", "Struct"}}

\* coerce_plan_expr_for_schema(plan, schema)
CoercePlanExprForSchema ==
    /\ co_result = [kind |-> "none"]
    /\ \E plan \in CoPlans, schema \in CoSchemas :
        /\ co_plan' = plan
        /\ co_schema' = schema
        /\ co_result' = coerce_plan_expr_for_schema(plan, schema)
    /\ UNCHANGED <<np_vars, rw_vars, nz_vars>>

----------------------------------------------------------------------------
\* Specifications of the name preserver and of the rewriter run; the
\* variables of the other components stay as they start.

NzIdle ==
    /\ nz_op = "none"
    /\ nz_expr = NoExpr
    /\ nz_schemas = <<>>
    /\ nz_using = {}
    /\ nz_result = Ok(NoExpr)
    /\ nz_origin = NoExpr

CoIdle ==
    /\ co_plan = [kind |-> "none"]
    /\ co_schema = <<>>
    /\ co_result = [kind |-> "none"]

Init == NpIdle /\ RwIdle /\ NzIdle /\ CoIdle

NextName == New \/ NewForProjection \/ Save \/ Restore
SpecName == Init /\ [][NextName]_vars

NextRewriter == RewriterVisit \/ FDown \/ FUp
SpecRewriter == Init /\ [][NextRewriter]_vars

NextNormalize ==
    NormalizeColWithSchemas \/ NormalizeCol \/ UnnormalizeCol \/ UnnormalizeNormalized
SpecNormalize == Init /\ [][NextNormalize]_vars

NextCoerce == CoercePlanExprForSchema
SpecCoerce == Init /\ [][NextCoerce]_vars

----------------------------------------------------------------------------
\* Name preservation.

UsesAliases ==
    \/ np_ctor = "new_for_projection"
    \/ np_ctor \in PlanKinds \ {"Filter", "Join", "TableScan", "Limit", "Statement"}

\* C1: with a name preserver that uses aliases, the restored expression has
\* the qualified name (relation and name string) of the original expression,
\* whatever the rewritten expression is.
RestoreKeepsQualifiedName ==
    (np_pc = "restored" /\ UsesAliases) =>
        /\ qualified_name(new_expr)[1] = qualified_name(expr_from)[1]
        /\ qualified_name(new_expr)[2] = qualified_name(expr_from)[2]

\* A restore after new(plan) for an aggregate had to alias the rewritten
\* expression to keep the name.
RestoreKeepsQualifiedNameWitness ==
    /\ np_pc = "restored"
    /\ np_ctor = "Aggregate"
    /\ qualified_name(rewrite_to) # qualified_name(expr_from)
    /\ new_expr # rewrite_to

\* C2: restore returns the rewritten expression itself when its qualified
\* name equals the saved one, and always with SavedName::None; it wraps it in
\* an alias carrying the original relation and name only when the relation
\* or the name string differs.
RestoreNoRedundantAlias ==
    np_pc = "restored" =>
        /\ saved_name.tag = "None" => new_expr = rewrite_to
        /\ (saved_name.tag = "Saved"
                /\ qualified_name(rewrite_to) = qualified_name(expr_from))
            => new_expr = rewrite_to
        /\ (saved_name.tag = "Saved"
                /\ qualified_name(rewrite_to) # qualified_name(expr_from))
            => /\ new_expr.kind = "Alias"
               /\ new_expr.expr = rewrite_to
               /\ new_expr.relation = qualified_name(expr_from)[1]
               /\ new_expr.name = qualified_name(expr_from)[2]

\* A rewrite to another expression of the same qualified name came back
\* unwrapped.
RestoreNoRedundantAliasWitness ==
    /\ np_pc = "restored"
    /\ saved_name.tag = "Saved"
    /\ rewrite_to # expr_from
    /\ expr_from.kind = "Alias"
    /\ rewrite_to.kind = "Column"
    /\ qualified_name(rewrite_to) = qualified_name(expr_from)
    /\ new_expr = rewrite_to

----------------------------------------------------------------------------
\* Traversal order.

IsPrefix(p, q) == Len(p) <= Len(q) /\ SubSeq(q, 1, Len(p)) = p
IsProperPrefix(p, q) == IsPrefix(p, q) /\ p # q
Parent(p) == SubSeq(p, 1, Len(p) - 1)
Called(hook, path, before) ==
    \E j \in 1..(before - 1) : rw_calls[j] = <<hook, path>>
RwDone == rw_root # NoExpr /\ rw_stack = <<>>

\* Every hook call is in depth-first, left-to-right position.
CallInOrder(i) ==
    LET hook == rw_calls[i][1]
        path == rw_calls[i][2]
    IN /\ hook = "f_down" =>
            \* nothing of this subtree was visited before
            /\ \A k \in 1..(i - 1) : ~IsPrefix(path, rw_calls[k][2])
            /\ path # <<>> =>
                \* the parent is entered and not left
                /\ Called("f_down", Parent(path), i)
                /\ ~Called("f_up", Parent(path), i)
                \* every child to the left is finished
                /\ \A s \in 1..(path[Len(path)] - 1) :
                        Called("f_up", Parent(path) \o <<s>>, i)
       /\ hook = "f_up" =>
            \E j \in 1..(i - 1) :
                /\ rw_calls[j] = <<"f_down", path>>
                \* between the two hooks of a node: its descendants only,
                \* and all of them, each entered and left
                /\ \A k \in (j + 1)..(i - 1) : IsProperPrefix(path, rw_calls[k][2])
                /\ \A p \in Paths(NodeAt(rw_root, path)) \ {<<>>} :
                        \E k1, k2 \in (j + 1)..(i - 1) :
                            /\ k1 < k2
                            /\ rw_calls[k1] = <<"f_down", path \o p>>
                            /\ rw_calls[k2] = <<"f_up", path \o p>>

\* What the rewriter recorded for a hook call.
Recorded(i) ==
    (IF rw_calls[i][1] = "f_down" THEN <<"Previsited">> ELSE <<"Mutated">>)
        \o Display(NodeAt(rw_root, rw_calls[i][2]))

\* C3: the hooks are called in strict depth-first, left-to-right order, and
\* for a binary node the recorded sequence is pre(whole), pre(left),
\* post(left), pre(right), post(right), post(whole).
RewriterOrder ==
    /\ Len(v) = Len(rw_calls)
    /\ \A i \in 1..Len(rw_calls) : CallInOrder(i) /\ v[i] = Recorded(i)
    /\ RwDone =>
        /\ Len(rw_calls) = 2 * Cardinality(Paths(rw_root))
        /\ rw_calls[Len(rw_calls)] = <<"f_up", <<>>>>
    /\ (RwDone /\ rw_root.kind = "BinaryExpr") =>
        /\ SelectSeq(rw_calls, LAMBDA c : Len(c[2]) <= 1)
            = << <<"f_down", <<>>>>, <<"f_down", <<1>>>>, <<"f_up", <<1>>>>,
                 <<"f_down", <<2>>>>, <<"f_up", <<2>>>>, <<"f_up", <<>>>> >>
        /\ (children(rw_root.left) = <<>> /\ children(rw_root.right) = <<>>) =>
            v = << <<"Previsited">> \o Display(rw_root),
                   <<"Previsited">> \o Display(rw_root.left),
                   <<"Mutated">> \o Display(rw_root.left),
                   <<"Previsited">> \o Display(rw_root.right),
                   <<"Mutated">> \o Display(rw_root.right),
                   <<"Mutated">> \o Display(rw_root) >>

\* The run of the test: col(a) = lit("CO"), finished, six entries recorded.
RewriterOrderWitness ==
    /\ RwDone
    /\ rw_root = BinaryExpr(Column(None, <<"a">>), "=", Literal("Utf8", "CO"))
    /\ Len(v) = 6
    /\ v[2] = <<"Previsited", "a">>
    /\ v[5] = <<"Mutated", "Utf8", "(", "\"", "CO", "\"", ")">>

----------------------------------------------------------------------------
\* Column resolution, stated on the schemas.

\* The places <<schema, field>> of a group whose field matches the column.
MatchPositions(group, c) ==
    {pos \in UNION {{<<i, j>> : j \in 1..Len(group[i])} : i \in 1..Len(group)} :
        FieldMatches(group[pos[1]][pos[2]], c)}

HasMatch(c, gs) == \E g \in 1..Len(gs) : MatchPositions(gs[g], c) # {}

\* The first group with a matching field.
FirstGroup(c, gs) ==
    gs[CHOOSE g \in 1..Len(gs) :
            /\ MatchPositions(gs[g], c) # {}
            /\ \A h \in 1..(g - 1) : MatchPositions(gs[h], c) = {}]

UniqueMatch(c, gs) ==
    HasMatch(c, gs) /\ Cardinality(MatchPositions(FirstGroup(c, gs), c)) = 1

TheMatch(c, gs) ==
    LET group == FirstGroup(c, gs)
        pos == CHOOSE q \in MatchPositions(group, c) : TRUE
    IN group[pos[1]][pos[2]]

\* Several matches, all of them columns of one USING clause.
UsingEquated(c, gs, us) ==
    /\ HasMatch(c, gs)
    /\ Cardinality(MatchPositions(FirstGroup(c, gs), c)) > 1
    /\ \E u \in us :
        \A pos \in MatchPositions(FirstGroup(c, gs), c) :
            ColumnOfField(FirstGroup(c, gs)[pos[1]][pos[2]]) \in u

AmbiguousCol(c, gs, us) ==
    /\ HasMatch(c, gs)
    /\ Cardinality(MatchPositions(FirstGroup(c, gs), c)) > 1
    /\ ~UsingEquated(c, gs, us)

UnknownCol(c, gs) == ~HasMatch(c, gs)

\* The column expressions of a tree, and the order the traversal meets them.
ColumnPaths(e) == {p \in Paths(e) : NodeAt(e, p).kind = "Column"}
PathBefore(p, q) ==
    \E i \in 1..Len(p) :
        /\ i <= Len(q)
        /\ p[i] < q[i]
        /\ \A j \in 1..(i - 1) : p[j] = q[j]

Fails(e, p, gs, us) ==
    AmbiguousCol(NodeAt(e, p), gs, us) \/ UnknownCol(NodeAt(e, p), gs)
IsFirstFailing(e, p, gs, us) ==
    /\ p \in ColumnPaths(e)
    /\ Fails(e, p, gs, us)
    /\ \A q \in ColumnPaths(e) : PathBefore(q, p) => ~Fails(e, q, gs, us)

NzChecked == nz_op = "normalize_col_with_schemas_and_ambiguity_check"

\* C4: each column reference is resolved against the groups in order: groups
\* without a match are skipped, the first group with exactly one match gives
\* the column its relation, and a group with several matches that no
\* using-set equates fails the call with AmbiguousReference.
NormalizeResolvesInGroupOrder ==
    NzChecked =>
        /\ (\A p \in ColumnPaths(nz_expr) : ~Fails(nz_expr, p, nz_schemas, nz_using)) =>
            /\ nz_result.ok
            /\ Paths(nz_result.data) = Paths(nz_expr)
            /\ \A p \in Paths(nz_expr) \ ColumnPaths(nz_expr) :
                    NodeAt(nz_result.data, p).kind = NodeAt(nz_expr, p).kind
            /\ \A p \in ColumnPaths(nz_expr) :
                    UniqueMatch(NodeAt(nz_expr, p), nz_schemas) =>
                        NodeAt(nz_result.data, p) =
                            Column(TheMatch(NodeAt(nz_expr, p), nz_schemas).relation,
                                   NodeAt(nz_expr, p).name)
        /\ \A p \in ColumnPaths(nz_expr) :
                (/\ IsFirstFailing(nz_expr, p, nz_schemas, nz_using)
                 /\ AmbiguousCol(NodeAt(nz_expr, p), nz_schemas, nz_using)) =>
                    /\ ~nz_result.ok
                    /\ nz_result.err.error = "AmbiguousReference"
                    /\ nz_result.err.field = NodeAt(nz_expr, p)

\* A column with no match in the first group and one match in the second
\* came back qualified by the second group's relation.
NormalizeResolvesInGroupOrderWitness ==
    /\ NzChecked
    /\ nz_expr.kind = "Column"
    /\ nz_expr.relation = None
    /\ Len(nz_schemas) = 2
    /\ MatchPositions(nz_schemas[1], nz_expr) = {}
    /\ Cardinality(MatchPositions(nz_schemas[2], nz_expr)) = 1
    /\ Len(nz_schemas[2]) = 2
    /\ nz_result.ok
    /\ nz_result.data.relation # None

\* C5 as stated: a column reference that matches no field in any group makes
\* the call return an UnknownColumn error naming such a column.
UnknownColumnAlwaysReported ==
    (NzChecked /\ \E p \in ColumnPaths(nz_expr) : UnknownCol(NodeAt(nz_expr, p), nz_schemas)) =>
        /\ ~nz_result.ok
        /\ nz_result.err.error = "UnknownColumn"
        /\ \E p \in ColumnPaths(nz_expr) :
            /\ UnknownCol(NodeAt(nz_expr, p), nz_schemas)
            /\ nz_result.err.field = NodeAt(nz_expr, p)

\* The fields of all candidate schemas.
AllCandidateFields(gs) ==
    UNION {{GroupFields(gs[g])[i] : i \in 1..Len(GroupFields(gs[g]))} : g \in 1..Len(gs)}
Listed(fields) == {fields[i] : i \in 1..Len(fields)}

\* C5, amended: a column expression that matches no field in any group makes
\* the call return an error and no expression; the error is that of the first
\* column expression, in traversal order, that fails to resolve: UnknownColumn
\* naming it and listing the valid fields, or AmbiguousReference.
UnknownColumnAborts ==
    (NzChecked /\ \E p \in ColumnPaths(nz_expr) : UnknownCol(NodeAt(nz_expr, p), nz_schemas)) =>
        /\ ~nz_result.ok
        /\ "data" \notin DOMAIN nz_result
        /\ \A p \in ColumnPaths(nz_expr) :
            IsFirstFailing(nz_expr, p, nz_schemas, nz_using) =>
                /\ nz_result.err.field = NodeAt(nz_expr, p)
                /\ UnknownCol(NodeAt(nz_expr, p), nz_schemas) =>
                    /\ nz_result.err.error = "UnknownColumn"
                    /\ Listed(nz_result.err.valid_fields)
                            \subseteq AllCandidateFields(nz_schemas)
                    /\ nz_schemas # <<>> =>
                            Listed(GroupFields(nz_schemas[1]))
                                \subseteq Listed(nz_result.err.valid_fields)
                /\ AmbiguousCol(NodeAt(nz_expr, p), nz_schemas, nz_using) =>
                    nz_result.err.error = "AmbiguousReference"

\* a + b where a resolves and b matches nowhere: UnknownColumn names b.
UnknownColumnAbortsWitness ==
    /\ NzChecked
    /\ nz_expr.kind = "BinaryExpr"
    /\ nz_expr.left.kind = "Column"
    /\ nz_expr.right.kind = "Column"
    /\ UniqueMatch(nz_expr.left, nz_schemas)
    /\ UnknownCol(nz_expr.right, nz_schemas)
    /\ ~nz_result.ok
    /\ nz_result.err.error = "UnknownColumn"
    /\ nz_result.err.field = nz_expr.right
    /\ nz_result.err.valid_fields # <<>>

----------------------------------------------------------------------------
\* Wrapper kinds.

\* The result the wrapper wrapped around the resolution of its inner column.
Rewrapped(e, gs, us) ==
    LET inner == IF e.kind = "Unnest" THEN e.expr ELSE e.column
        r == normalize_with_schemas_and_ambiguity_check(inner, gs, us)
    IN IF ~r.ok THEN r
       ELSE IF e.kind = "Unnest" THEN Ok(Unnest(r.data))
       ELSE Ok(OuterReferenceColumn(e.data_type, r.data))

\* A column wrapped in an unnest or in an outer reference.
IsWrappedColumn(e) ==
    \/ e.kind = "Unnest" /\ e.expr.kind = "Column"
    \/ e.kind = "OuterReferenceColumn"

\* C8 as stated: for an unnest and for an outer reference, the inner column
\* is normalized as a plain column is and the result is the same wrapper
\* around it.
NormalizeUnwrapsBothWrappers ==
    (NzChecked /\ IsWrappedColumn(nz_expr)) =>
        nz_result = Rewrapped(nz_expr, nz_schemas, nz_using)

\* C8, amended: the unnest wrapper is unwrapped, its inner expression is
\* normalized as a plain column is and wrapped in an unnest again; an outer
\* reference is returned as it is, its column not looked up in the groups.
NormalizeUnwrapsUnnestOnly ==
    NzChecked =>
        /\ (nz_expr.kind = "Unnest" /\ nz_expr.expr.kind = "Column") =>
            nz_result = Rewrapped(nz_expr, nz_schemas, nz_using)
        /\ nz_expr.kind = "Unnest" =>
            /\ nz_result.ok => nz_result.data.kind = "Unnest"
            /\ nz_result.ok =
                (\A p \in ColumnPaths(nz_expr) : ~Fails(nz_expr, p, nz_schemas, nz_using))
        /\ nz_expr.kind = "OuterReferenceColumn" => nz_result = Ok(nz_expr)

\* unnest(a) came back as unnest(t.a).
NormalizeUnwrapsUnnestOnlyWitness ==
    /\ NzChecked
    /\ nz_expr.kind = "Unnest"
    /\ nz_expr.expr = Column(None, <<"a">>)
    /\ nz_result.ok
    /\ nz_result.data.kind = "Unnest"
    /\ nz_result.data.expr.kind = "Column"
    /\ nz_result.data.expr.relation # None

----------------------------------------------------------------------------
\* Round trip of normalize_col and unnormalize_col.

\* The same tree but for the qualifiers of its column expressions.
EqualUpToQualifiers(x, y) ==
    /\ Paths(x) = Paths(y)
    /\ \A p \in Paths(x) :
        LET a == NodeAt(x, p)
            b == NodeAt(y, p)
        IN /\ a.kind = b.kind
           /\ a.kind = "Column" => a.name = b.name
           /\ a.kind # "Column" => with_new_children(a, children(b)) = b

NoQualifiedColumn(x) ==
    \A p \in ColumnPaths(x) : NodeAt(x, p).relation = None

NoDuplicateBareNames(schema) ==
    \A i, j \in 1..Len(schema) : schema[i].name = schema[j].name => i = j

RoundTrip == nz_op = "unnormalize_col" /\ nz_origin # NoExpr

\* C10 as stated: unnormalize_col(normalize_col(e, plan)) is unalias(e) with
\* every column in bare-name form.
RoundTripIsUnalias ==
    (RoundTrip /\ NoDuplicateBareNames(nz_schemas[1][1])) =>
        /\ EqualUpToQualifiers(nz_result, unalias(nz_origin))
        /\ NoQualifiedColumn(nz_result)

\* C10, amended: unnormalize_col(normalize_col(e, plan)) is e itself with
\* every column expression in bare-name form, aliases kept; it is unalias(e)
\* in that form when e is not an alias. unnormalize_col never fails, leaves
\* no qualified column expression in the tree and keeps each column's name.
RoundTripKeepsAliases ==
    /\ RoundTrip =>
        /\ EqualUpToQualifiers(nz_result, nz_origin)
        /\ NoQualifiedColumn(nz_result)
        /\ nz_origin.kind # "Alias" =>
                EqualUpToQualifiers(nz_result, unalias(nz_origin))
    /\ nz_op = "unnormalize_col" =>
        /\ nz_result # Panic
        /\ NoQualifiedColumn(nz_result)
        /\ EqualUpToQualifiers(nz_result, nz_expr)

\* a + b was normalized to t.a + t.b against a schema without duplicate
\* bare names, and unnormalized to a + b again.
RoundTripKeepsAliasesWitness ==
    /\ RoundTrip
    /\ NoDuplicateBareNames(nz_schemas[1][1])
    /\ nz_origin.kind = "BinaryExpr"
    /\ nz_origin.right.kind = "Column"
    /\ nz_expr.left.relation # None
    /\ nz_expr.right.relation # None
    /\ nz_result = nz_origin

----------------------------------------------------------------------------
\* Schema coercion of a plan.

CoCalled == co_result # [kind |-> "none"]

\* The expressions the call coerces.
CoExprs ==
    IF co_plan.kind = "Projection" THEN co_plan.expr ELSE schema_columns(co_plan.schema)

\* Every output column of the plan has the type of the target field at its
\* position.
AllTypesMatch ==
    \A i \in 1..Len(co_plan.schema) :
        i <= Len(co_schema) /\ co_plan.schema[i].type = co_schema[i].type

\* Every output column has a target field and can be cast to its type.
AllCoercible ==
    \A i \in 1..Len(co_plan.schema) :
        i <= Len(co_schema)
            /\ can_cast_types(co_plan.schema[i].type, co_schema[i].type)

\* C6: on a plan that is not a projection the call returns the identical
\* plan exactly when every output column already has the target type, and a
\* new projection above the plan, carrying the coerced list, exactly when a
\* coerced entry is not a plain column; on a projection it returns a
\* projection over the same input with the expressions coerced in place.
CoerceAddsProjectionOnlyWhenNeeded ==
    CoCalled =>
        /\ co_plan.kind # "Projection" =>
            /\ (co_result = Ok(co_plan)) = AllTypesMatch
            /\ (co_result.ok /\ co_result.data # co_plan)
                    = (AllCoercible /\ ~AllTypesMatch)
            /\ (co_result.ok /\ co_result.data # co_plan) =>
                /\ co_result.data.kind = "Projection"
                /\ co_result.data.input = co_plan
                /\ Len(co_result.data.expr) = Len(co_plan.schema)
                /\ \E i \in 1..Len(co_plan.schema) : co_result.data.expr[i].kind # "Column"
                /\ \A i \in 1..Len(co_plan.schema) :
                    co_result.data.expr[i] =
                        IF co_plan.schema[i].type = co_schema[i].type
                        THEN ColumnOfField(co_plan.schema[i])
                        ELSE Cast(ColumnOfField(co_plan.schema[i]), co_schema[i].type)
        /\ (co_plan.kind = "Projection" /\ co_result.ok) =>
            /\ co_result.data.kind = "Projection"
            /\ co_result.data.input = co_plan.input
            /\ Len(co_result.data.expr) = Len(co_plan.expr)
            /\ \A i \in 1..Len(co_plan.expr) :
                \/ co_result.data.expr[i] = co_plan.expr[i]
                \/ /\ get_type(co_plan.expr[i], co_plan.input.schema).data
                            # co_schema[i].type
                   /\ get_type(co_result.data.expr[i], co_plan.input.schema).data
                            = co_schema[i].type

\* A scan of two columns, one of the target type and one not, came back
\* under a projection that casts the one.
CoerceAddsProjectionOnlyWhenNeededWitness ==
    /\ CoCalled
    /\ co_plan.kind = "TableScan"
    /\ Len(co_plan.schema) = 2
    /\ Len(co_schema) = 2
    /\ co_result.ok
    /\ co_result.data.kind = "Projection"
    /\ co_result.data.input = co_plan
    /\ co_result.data.expr[1].kind = "Column"
    /\ co_result.data.expr[2].kind = "Cast"

\* C7: when the number of expressions differs from the number of fields of
\* the target schema, the call returns a SchemaMismatch error and no plan.
CoerceArityMismatchIsError ==
    (CoCalled /\ Len(CoExprs) # Len(co_schema)) =>
        /\ ~co_result.ok
        /\ "err" \in DOMAIN co_result
        /\ co_result.err.error = "SchemaMismatch"

\* C9: an alias whose type differs from the target type is coerced to the
\* inner expression cast to the target type under the same alias, so that
\* its qualified name (relation and name) is the one before coercion.
CoerceAliasKeepsQualifiedName ==
    (CoCalled /\ co_plan.kind = "Projection" /\ co_result.ok) =>
        \A i \in 1..Len(co_plan.expr) :
            (/\ co_plan.expr[i].kind = "Alias"
             /\ get_type(co_plan.expr[i], co_plan.input.schema).data # co_schema[i].type) =>
                /\ co_result.data.expr[i].kind = "Alias"
                /\ co_result.data.expr[i].expr
                        = Cast(co_plan.expr[i].expr, co_schema[i].type)
                /\ qualified_name(co_result.data.expr[i])
                        = qualified_name(co_plan.expr[i])

====
